---- MODULE Spec2Model ----
(***************************************************************************)
(* Model of src/src/peft/tuners/multitask_prompt_tuning.py:                *)
(* MultitaskPromptEmbedding.__init__ (construction, one action per step of *)
(* the constructor) and MultitaskPromptEmbedding.forward (the lookup).     *)
(*                                                                         *)
(* Tensors are functions over 0-based index ranges, as in the source.      *)
(* Floating-point entries are modelled as exact rationals <<num, den>> in  *)
(* lowest terms with den > 0.                                              *)
(***************************************************************************)
EXTENDS Integers, Sequences, FiniteSets, TLC

----------------------------------------------------------------------------
(* Bounds of the model *)

MaxTasks == 2
MaxRanks == 2
MaxDim == 2
MaxSourceTasks == 2
MaxBatch == 2
num_virtual_tokens == 2
num_transformer_submodules == 1

\* seeds of the tensors a checkpoint may hold / of freshly sampled tensors
\* (torch.normal may return any value, a checkpoint's values included)
CkptSeeds == {2, 3}
FreshSeeds == {2, 6}

----------------------------------------------------------------------------
(* Rational arithmetic (the element type of every tensor) *)

Abs(x) == IF x < 0 THEN -x ELSE x

RECURSIVE GCD(_, _)
GCD(a, b) == IF b = 0 THEN a ELSE GCD(b, a % b)

RNorm(n, d) ==
    LET g == GCD(Abs(n), d)
    IN  <<(IF n < 0 THEN -(Abs(n) \div g) ELSE n \div g), d \div g>>

RInt(n) == <<n, 1>>
RAdd(a, b) == RNorm(a[1] * b[2] + b[1] * a[2], a[2] * b[2])
RMul(a, b) == RNorm(a[1] * b[1], a[2] * b[2])
RDivInt(a, k) == RNorm(a[1], a[2] * k)

\* sum of f[j] for j in 0..n-1
RECURSIVE RSum(_, _)
RSum(f, n) == IF n = 0 THEN RInt(0) ELSE RAdd(RSum(f, n - 1), f[n - 1])

----------------------------------------------------------------------------
(* Tensors *)

Size0(t) == Cardinality(DOMAIN t)
Shape2(t) == <<Size0(t), Size0(t[0])>>
Shape3(t) == <<Size0(t), Size0(t[0]), Size0(t[0][0])>>

\* Python's None: as a string-valued field, and in place of a tensor or dict
None == "None"
NoTensor == << >>

\* sample tensors: distinct entries at distinct positions
BaseT(s, T, D) ==
    [i \in 0..(T - 1) |-> [d \in 0..(D - 1) |-> RInt(s + i + 4 * d)]]
ColsT(s, T, R) ==
    [i \in 0..(T - 1) |-> [r \in 0..(R - 1) |-> RNorm(1, s - 1 + i + 3 * r)]]
RowsT(s, R, D) ==
    [r \in 0..(R - 1) |-> [d \in 0..(D - 1) |-> RInt(s + r + 2 * d)]]
ColsBank(s, n, T, R) == [j \in 0..(n - 1) |-> ColsT(s + j, T, R)]
RowsBank(s, n, R, D) == [j \in 0..(n - 1) |-> RowsT(s + j, R, D)]

----------------------------------------------------------------------------
(* Configuration *)

AVERAGE_SOURCE_TASKS == "AVERAGE_SOURCE_TASKS"
EXACT_SOURCE_TASK == "EXACT_SOURCE_TASK"
ONLY_SOURCE_SHARED == "ONLY_SOURCE_SHARED"

MultitaskPromptTuningInit ==
    {"TEXT", "RANDOM", AVERAGE_SOURCE_TASKS, EXACT_SOURCE_TASK, ONLY_SOURCE_SHARED}

SourceModes == {AVERAGE_SOURCE_TASKS, EXACT_SOURCE_TASK, ONLY_SOURCE_SHARED}
FactorModes == {AVERAGE_SOURCE_TASKS, EXACT_SOURCE_TASK}

\* prompt_tuning_init_task is read only in the two factor modes; elsewhere
\* it keeps its default 0
MultitaskPromptTuningConfig ==
    { c \in [prompt_tuning_init : MultitaskPromptTuningInit,
             prompt_tuning_init_state_dict_path : {None, "ckpt.pt"},
             prompt_tuning_init_task : (-(MaxSourceTasks + 1))..MaxSourceTasks,
             num_ranks : 1..MaxRanks,
             num_tasks : 1..MaxTasks,
             token_dim : 1..MaxDim] :
        c.prompt_tuning_init \notin FactorModes => c.prompt_tuning_init_task = 0 }

VARIABLES
    config,             \* the MultitaskPromptTuningConfig of this table
    pc,                 \* position of the constructor / "ready" / "failed"
    embedding_weight,   \* self.embedding.weight  (base_vectors)
    prefix_task_cols,   \* self.prefix_task_cols  (task_cols)
    prefix_task_rows,   \* self.prefix_task_rows  (task_rows)
    checkpoint,         \* what torch.load returned from the path
    state_dict,         \* the constructor's local state_dict
    prefix_task_cols_,  \* the constructor's local prefix_task_cols_
    prefix_task_rows_,  \* the constructor's local prefix_task_rows_
    error,              \* the exception the constructor raised, if any
    events,             \* the constructor's steps so far, in order
    last                \* the latest forward call: inputs, result

vars == <<config, pc, embedding_weight, prefix_task_cols, prefix_task_rows,
          checkpoint, state_dict, prefix_task_cols_, prefix_task_rows_,
          error, events, last>>

total_virtual_tokens == num_virtual_tokens * num_transformer_submodules

NoCall == [called |-> FALSE]

Init ==
    /\ config \in MultitaskPromptTuningConfig
    /\ pc = "start"
    /\ embedding_weight = NoTensor
    /\ prefix_task_cols = NoTensor
    /\ prefix_task_rows = NoTensor
    /\ checkpoint = NoTensor
    /\ state_dict = NoTensor
    /\ prefix_task_cols_ = NoTensor
    /\ prefix_task_rows_ = NoTensor
    /\ error = None
    /\ events = <<>>
    /\ last = NoCall

----------------------------------------------------------------------------
(* The checkpoint bundles torch.load may return for a table of dimensions   *)
(* T, R, D: all keys or a subset, any number of source tasks, tensor        *)
(* dimensions equal to the table's or off by one in one dimension.          *)

CheckpointKeys == {"prompt_embeddings", "prefix_task_cols", "prefix_task_rows"}

Checkpoint(s, n, cT, cR, cD, keys) ==
    [k \in keys |->
        CASE k = "prompt_embeddings" -> BaseT(s, cT, cD)
          [] k = "prefix_task_cols" -> ColsBank(s, n, cT, cR)
          [] k = "prefix_task_rows" -> RowsBank(s, n, cR, cD)]

Checkpoints(T, R, D) ==
    { Checkpoint(s, n, dims[1], dims[2], dims[3], keys) :
        s \in CkptSeeds,
        n \in 1..MaxSourceTasks,
        dims \in {<<T, R, D>>, <<T + 1, R, D>>, <<T, R + 1, D>>, <<T, R, D + 1>>},
        keys \in {CheckpointKeys, {"prompt_embeddings"},
                  {"prefix_task_cols", "prefix_task_rows"}} }

----------------------------------------------------------------------------
(* torch.nn.Module.load_state_dict as the constructor uses it *)

ParamKeys == {"embedding.weight", "prefix_task_cols", "prefix_task_rows"}

ShapeOf(key, t) == IF key = "embedding.weight" THEN Shape2(t) ELSE Shape3(t)

Params == [k \in ParamKeys |->
            CASE k = "embedding.weight" -> embedding_weight
              [] k = "prefix_task_cols" -> prefix_task_cols
              [] k = "prefix_task_rows" -> prefix_task_rows]

\* a variant that skips a key of mismatched shape without an error
load_state_dict_lenient(self, sd, strict) ==
    LET present == ParamKeys \cap DOMAIN sd
        mismatched == {k \in present : ShapeOf(k, sd[k]) # ShapeOf(k, self[k])}
        missing == ParamKeys \ DOMAIN sd
        unexpected == DOMAIN sd \ ParamKeys
        failed == strict /\ (missing # {} \/ unexpected # {})
    IN  [self |-> [k \in ParamKeys |->
                      IF k \in present \ mismatched THEN sd[k] ELSE self[k]],
         error |-> IF failed THEN "RuntimeError" ELSE None]

\* Every key of matching shape is copied; a shape mismatch is an error under
\* either mode, a missing or unexpected key only under strict. The error is
\* raised after the copies.
load_state_dict(self, sd, strict) ==
    LET present == ParamKeys \cap DOMAIN sd
        mismatched == {k \in present : ShapeOf(k, sd[k]) # ShapeOf(k, self[k])}
        missing == ParamKeys \ DOMAIN sd
        unexpected == DOMAIN sd \ ParamKeys
        failed == \/ mismatched # {}
                  \/ strict /\ (missing # {} \/ unexpected # {})
    IN  [self |-> [k \in ParamKeys |->
                      IF k \in present \ mismatched THEN sd[k] ELSE self[k]],
         error |-> IF failed THEN "RuntimeError" ELSE None]

\* a variant that sums over the source tasks without dividing
mean0_sum(t) ==
    LET n == Size0(t)
    IN  [z \in {0} |->
          [i \in DOMAIN t[0] |->
            [j \in DOMAIN t[0][0] |->
              RSum([s \in 0..(n - 1) |-> t[s][i][j]], n)]]]

\* tensor.mean(0, keepdim=True) of a rank-3 tensor
mean0(t) ==
    LET n == Size0(t)
    IN  [z \in {0} |->
          [i \in DOMAIN t[0] |->
            [j \in DOMAIN t[0][0] |->
              RDivInt(RSum([s \in 0..(n - 1) |-> t[s][i][j]], n), n)]]]

\* a variant that rejects every negative index
InRange_nonneg(t, k) == 0 <= k /\ k < Size0(t)

\* a variant that always takes the first source task
select0_first(t, k) == t[0]

\* tensor[k, ...]: Python indexing, a negative k counts from the end
InRange(t, k) == -Size0(t) <= k /\ k < Size0(t)
select0(t, k) == IF k < 0 THEN t[Size0(t) + k] ELSE t[k]

unsqueeze0(t) == [z \in {0} |-> t]

----------------------------------------------------------------------------
(* MultitaskPromptEmbedding.__init__ *)

Raise(exc) ==
    /\ pc' = "failed"
    /\ error' = exc
    /\ state_dict' = NoTensor
    /\ prefix_task_cols_' = NoTensor
    /\ prefix_task_rows_' = NoTensor

\* super().__init__(config, word_embeddings): the base table is allocated
SuperInit ==
    /\ pc = "start"
    /\ \E s \in FreshSeeds :
         embedding_weight' = BaseT(s, total_virtual_tokens, config.token_dim)
    /\ pc' = "alloc_factors"
    /\ events' = Append(events, "alloc_base")
    /\ UNCHANGED <<config, prefix_task_cols, prefix_task_rows, checkpoint,
                   state_dict, prefix_task_cols_, prefix_task_rows_, error, last>>

\* a variant that checks the path before it allocates the factors
AllocFactors_after_validation ==
    /\ pc = "alloc_factors"
    /\ IF /\ config.prompt_tuning_init \in SourceModes
          /\ config.prompt_tuning_init_state_dict_path = None
       THEN /\ Raise("ValueError")
            /\ events' = Append(events, "raise_ValueError")
            /\ UNCHANGED <<prefix_task_cols, prefix_task_rows>>
       ELSE /\ \E s \in FreshSeeds :
                 /\ prefix_task_cols' =
                      ColsBank(s, config.num_tasks, total_virtual_tokens, config.num_ranks)
                 /\ prefix_task_rows' =
                      RowsBank(s, config.num_tasks, config.num_ranks, config.token_dim)
            /\ pc' = "check_path"
            /\ events' = Append(events, "alloc_factors")
            /\ UNCHANGED <<state_dict, prefix_task_cols_, prefix_task_rows_, error>>
    /\ UNCHANGED <<config, embedding_weight, checkpoint, last>>

\* the two torch.normal parameters
AllocFactors ==
    /\ pc = "alloc_factors"
    /\ \E s \in FreshSeeds :
         /\ prefix_task_cols' =
              ColsBank(s, config.num_tasks, total_virtual_tokens, config.num_ranks)
         /\ prefix_task_rows' =
              RowsBank(s, config.num_tasks, config.num_ranks, config.token_dim)
    /\ pc' = "check_path"
    /\ events' = Append(events, "alloc_factors")
    /\ UNCHANGED <<config, embedding_weight, checkpoint, state_dict,
                   prefix_task_cols_, prefix_task_rows_, error, last>>

\* a variant without the path check
CheckPath_unvalidated ==
    /\ pc = "check_path"
    /\ pc' = IF config.prompt_tuning_init \in SourceModes THEN "torch_load" ELSE "dispatch"
    /\ UNCHANGED <<config, embedding_weight, prefix_task_cols, prefix_task_rows,
                   checkpoint, state_dict, prefix_task_cols_, prefix_task_rows_,
                   error, events, last>>

\* the path check of the three source modes
CheckPath ==
    /\ pc = "check_path"
    /\ IF config.prompt_tuning_init \in SourceModes
       THEN IF config.prompt_tuning_init_state_dict_path = None
            THEN /\ Raise("ValueError")
                 /\ events' = Append(events, "raise_ValueError")
            ELSE /\ pc' = "torch_load"
                 /\ UNCHANGED <<error, events, state_dict,
                                prefix_task_cols_, prefix_task_rows_>>
       ELSE /\ pc' = "dispatch"
            /\ UNCHANGED <<error, events, state_dict,
                           prefix_task_cols_, prefix_task_rows_>>
    /\ UNCHANGED <<config, embedding_weight, prefix_task_cols, prefix_task_rows,
                   checkpoint, last>>

\* torch.load returns a bundle
TorchLoad ==
    /\ pc = "torch_load"
    /\ \E sd \in Checkpoints(total_virtual_tokens, config.num_ranks, config.token_dim) :
         /\ state_dict' = sd
         /\ checkpoint' = sd
    /\ pc' = "dispatch"
    /\ events' = Append(events, "read_checkpoint")
    /\ UNCHANGED <<config, embedding_weight, prefix_task_cols, prefix_task_rows,
                   prefix_task_cols_, prefix_task_rows_, error, last>>

\* torch.load finds no readable bundle at the path
TorchLoadFails ==
    /\ pc = "torch_load"
    /\ Raise("OSError")
    /\ events' = Append(events, "read_checkpoint")
    /\ UNCHANGED <<config, embedding_weight, prefix_task_cols, prefix_task_rows,
                   checkpoint, last>>

\* prefix_task_cols_ = state_dict["prefix_task_cols"], and the rows
GetFactors ==
    /\ pc = "dispatch"
    /\ config.prompt_tuning_init \in FactorModes
    /\ IF {"prefix_task_cols", "prefix_task_rows"} \subseteq DOMAIN state_dict
       THEN /\ prefix_task_cols_' = state_dict["prefix_task_cols"]
            /\ prefix_task_rows_' = state_dict["prefix_task_rows"]
            /\ pc' = "reduce"
            /\ UNCHANGED <<error, state_dict>>
       ELSE Raise("KeyError")
    /\ UNCHANGED <<config, embedding_weight, prefix_task_cols, prefix_task_rows,
                   checkpoint, events, last>>

\* the mean over the source tasks, or the selection of one of them
Reduce ==
    /\ pc = "reduce"
    /\ IF config.prompt_tuning_init = AVERAGE_SOURCE_TASKS
       THEN /\ prefix_task_cols_' = mean0(prefix_task_cols_)
            /\ prefix_task_rows_' = mean0(prefix_task_rows_)
            /\ pc' = "load_strict"
            /\ UNCHANGED <<error, state_dict>>
       ELSE IF /\ InRange(prefix_task_cols_, config.prompt_tuning_init_task)
               /\ InRange(prefix_task_rows_, config.prompt_tuning_init_task)
            THEN /\ prefix_task_cols_' =
                      unsqueeze0(select0(prefix_task_cols_, config.prompt_tuning_init_task))
                 /\ prefix_task_rows_' =
                      unsqueeze0(select0(prefix_task_rows_, config.prompt_tuning_init_task))
                 /\ pc' = "load_strict"
                 /\ UNCHANGED <<error, state_dict>>
            ELSE Raise("IndexError")
    /\ UNCHANGED <<config, embedding_weight, prefix_task_cols, prefix_task_rows,
                   checkpoint, events, last>>

\* the three-key state_dict and self.load_state_dict(state_dict, strict=True)
LoadStrict ==
    /\ pc = "load_strict"
    /\ IF "prompt_embeddings" \in DOMAIN state_dict
       THEN LET sd == [k \in ParamKeys |->
                        CASE k = "embedding.weight" -> state_dict["prompt_embeddings"]
                          [] k = "prefix_task_cols" -> prefix_task_cols_
                          [] k = "prefix_task_rows" -> prefix_task_rows_]
            IN  \E res \in {load_state_dict(Params, sd, TRUE)} :
                /\ embedding_weight' = res.self["embedding.weight"]
                /\ prefix_task_cols' = res.self["prefix_task_cols"]
                /\ prefix_task_rows' = res.self["prefix_task_rows"]
                /\ events' = Append(events, "load_state_dict")
                /\ IF res.error = None
                   THEN /\ pc' = "ready"
                        /\ state_dict' = NoTensor
                        /\ prefix_task_cols_' = NoTensor
                        /\ prefix_task_rows_' = NoTensor
                        /\ UNCHANGED error
                   ELSE Raise(res.error)
       ELSE /\ Raise("KeyError")
            /\ UNCHANGED <<embedding_weight, prefix_task_cols, prefix_task_rows, events>>
    /\ UNCHANGED <<config, checkpoint, last>>

\* a variant that passes every key of the checkpoint on to the load
LoadShared_with_factors ==
    /\ pc = "dispatch"
    /\ config.prompt_tuning_init = ONLY_SOURCE_SHARED
    /\ IF "prompt_embeddings" \in DOMAIN state_dict
       THEN LET sd == [k \in {"embedding.weight"} \cup (DOMAIN state_dict \cap ParamKeys) |->
                        IF k = "embedding.weight" THEN state_dict["prompt_embeddings"]
                        ELSE state_dict[k]]
            IN  \E res \in {load_state_dict(Params, sd, FALSE)} :
                /\ embedding_weight' = res.self["embedding.weight"]
                /\ prefix_task_cols' = res.self["prefix_task_cols"]
                /\ prefix_task_rows' = res.self["prefix_task_rows"]
                /\ events' = Append(events, "load_state_dict")
                /\ IF res.error = None
                   THEN /\ pc' = "ready"
                        /\ state_dict' = NoTensor
                        /\ UNCHANGED <<error, prefix_task_cols_, prefix_task_rows_>>
                   ELSE Raise(res.error)
       ELSE /\ Raise("KeyError")
            /\ UNCHANGED <<embedding_weight, prefix_task_cols, prefix_task_rows, events>>
    /\ UNCHANGED <<config, checkpoint, last>>

\* the one-key state_dict and self.load_state_dict(state_dict, strict=False)
LoadShared ==
    /\ pc = "dispatch"
    /\ config.prompt_tuning_init = ONLY_SOURCE_SHARED
    /\ IF "prompt_embeddings" \in DOMAIN state_dict
       THEN LET sd == [k \in {"embedding.weight"} |-> state_dict["prompt_embeddings"]]
            IN  \E res \in {load_state_dict(Params, sd, FALSE)} :
                /\ embedding_weight' = res.self["embedding.weight"]
                /\ prefix_task_cols' = res.self["prefix_task_cols"]
                /\ prefix_task_rows' = res.self["prefix_task_rows"]
                /\ events' = Append(events, "load_state_dict")
                /\ IF res.error = None
                   THEN /\ pc' = "ready"
                        /\ state_dict' = NoTensor
                        /\ UNCHANGED <<error, prefix_task_cols_, prefix_task_rows_>>
                   ELSE Raise(res.error)
       ELSE /\ Raise("KeyError")
            /\ UNCHANGED <<embedding_weight, prefix_task_cols, prefix_task_rows, events>>
    /\ UNCHANGED <<config, checkpoint, last>>

\* RANDOM and TEXT: neither branch is taken, the constructor returns
NoSourceInit ==
    /\ pc = "dispatch"
    /\ config.prompt_tuning_init \notin SourceModes
    /\ pc' = "ready"
    /\ UNCHANGED <<config, embedding_weight, prefix_task_cols, prefix_task_rows,
                   checkpoint, state_dict, prefix_task_cols_, prefix_task_rows_,
                   error, events, last>>

----------------------------------------------------------------------------
(* MultitaskPromptEmbedding.forward *)

Max(a, b) == IF a >= b THEN a ELSE b

\* shapes are sequences of sizes; broadcasting aligns them at the right
Pad(s, n) == [k \in 1..n |-> IF k <= n - Len(s) THEN 1 ELSE s[k - (n - Len(s))]]
BroadcastShape(sa, sb) ==
    LET n == Max(Len(sa), Len(sb))
        a == Pad(sa, n)
        b == Pad(sb, n)
    IN  IF \A k \in 1..n : a[k] = b[k] \/ a[k] = 1 \/ b[k] = 1
        THEN [k \in 1..n |-> IF a[k] = 1 THEN b[k] ELSE a[k]]
        ELSE NoTensor

\* an index tensor is [rank, t]: t is a batch of rows of positions; under
\* rank 1 it is the single row t[0] and has no batch dimension
IndexShape(indices) ==
    IF indices.rank = 1 THEN <<Size0(indices.t[0])>>
    ELSE <<Size0(indices.t), Size0(indices.t[0])>>
IndexEntries(indices) ==
    {indices.t[b][i] : b \in DOMAIN indices.t, i \in DOMAIN indices.t[0]}

\* self.embedding(indices): a new tensor holding the selected rows of weight
embedding_ok(weight, indices) ==
    \A x \in IndexEntries(indices) : 0 <= x /\ x < Size0(weight)
embedding(weight, indices) ==
    IF indices.rank = 1
    THEN [i \in DOMAIN indices.t[0] |-> weight[indices.t[0][i]]]
    ELSE [b \in DOMAIN indices.t |->
            [i \in DOMAIN indices.t[b] |-> weight[indices.t[b][i]]]]

\* torch.index_select(t, 0, task_ids): no negative index is accepted
index_select_ok(t, task_ids) ==
    \A b \in DOMAIN task_ids : 0 <= task_ids[b] /\ task_ids[b] < Size0(t)
index_select(t, task_ids) == [b \in DOMAIN task_ids |-> t[task_ids[b]]]

\* torch.matmul of [B, T, R] and [B, R, D]
matmul(a, b) ==
    [z \in DOMAIN a |->
      [i \in DOMAIN a[z] |->
        [d \in DOMAIN b[z][0] |->
          RSum([r \in DOMAIN b[z] |-> RMul(a[z][i][r], b[z][r][d])], Size0(b[z]))]]]

\* a *= m, a of rank 3: m is broadcast to a's shape
imul3(a, m) ==
    [z \in DOMAIN a |->
      [i \in DOMAIN a[z] |->
        [d \in DOMAIN a[z][i] |->
          RMul(a[z][i][d],
               m[IF Size0(m) = 1 THEN 0 ELSE z]
                [IF Size0(m[0]) = 1 THEN 0 ELSE i]
                [IF Size0(m[0][0]) = 1 THEN 0 ELSE d])]]]

\* a variant that treats an absent task_ids as task 0 for every batch row
forward_default_task(self, indices, task_ids) ==
    LET ids == IF task_ids = NoTensor
               THEN [b \in 0..(IndexShape(indices)[1] - 1) |-> 0]
               ELSE task_ids
    IN  IF ~embedding_ok(self["embedding.weight"], indices)
           \/ ~index_select_ok(self["prefix_task_cols"], ids)
        THEN [self |-> self, out |-> NoTensor, error |-> "IndexError"]
        ELSE LET prompt_embeddings == embedding(self["embedding.weight"], indices)
                 task_prompts == matmul(index_select(self["prefix_task_cols"], ids),
                                        index_select(self["prefix_task_rows"], ids))
                 shape == IndexShape(indices) \o <<Size0(self["embedding.weight"][0])>>
             IN  IF BroadcastShape(shape, Shape3(task_prompts)) # shape
                 THEN [self |-> self, out |-> NoTensor, error |-> "RuntimeError"]
                 ELSE [self |-> self, out |-> imul3(prompt_embeddings, task_prompts),
                       error |-> None]

\* a variant whose in-place product acts on the stored weight (the gathered
\* rows alias the table) instead of on a copy
forward_aliasing(self, indices, task_ids) ==
    IF task_ids = NoTensor
    THEN [self |-> self, out |-> NoTensor, error |-> "AssertionError"]
    ELSE IF ~embedding_ok(self["embedding.weight"], indices)
            \/ ~index_select_ok(self["prefix_task_cols"], task_ids)
    THEN [self |-> self, out |-> NoTensor, error |-> "IndexError"]
    ELSE LET prompt_embeddings == embedding(self["embedding.weight"], indices)
             task_prompts == matmul(index_select(self["prefix_task_cols"], task_ids),
                                    index_select(self["prefix_task_rows"], task_ids))
             shape == IndexShape(indices) \o <<Size0(self["embedding.weight"][0])>>
         IN  IF BroadcastShape(shape, Shape3(task_prompts)) # shape
             THEN [self |-> self, out |-> NoTensor, error |-> "RuntimeError"]
             ELSE LET out == imul3(prompt_embeddings, task_prompts)
                      w == self["embedding.weight"]
                  IN  [self |-> [self EXCEPT !["embedding.weight"] =
                                  [x \in DOMAIN w |->
                                    IF \E i \in DOMAIN indices.t[0] : indices.t[0][i] = x
                                    THEN out[0][CHOOSE i \in DOMAIN indices.t[0] :
                                                    indices.t[0][i] = x]
                                    ELSE w[x]]],
                       out |-> out, error |-> None]

\* a variant that multiplies by the modulation of position 0 at every position
forward_first_position(self, indices, task_ids) ==
    IF task_ids = NoTensor
    THEN [self |-> self, out |-> NoTensor, error |-> "AssertionError"]
    ELSE IF ~embedding_ok(self["embedding.weight"], indices)
            \/ ~index_select_ok(self["prefix_task_cols"], task_ids)
    THEN [self |-> self, out |-> NoTensor, error |-> "IndexError"]
    ELSE LET prompt_embeddings == embedding(self["embedding.weight"], indices)
             task_prompts == matmul(index_select(self["prefix_task_cols"], task_ids),
                                    index_select(self["prefix_task_rows"], task_ids))
             shape == IndexShape(indices) \o <<Size0(self["embedding.weight"][0])>>
         IN  IF BroadcastShape(shape, Shape3(task_prompts)) # shape
             THEN [self |-> self, out |-> NoTensor, error |-> "RuntimeError"]
             ELSE [self |-> self,
                   out |-> imul3(prompt_embeddings,
                                 [z \in DOMAIN task_prompts |-> [i \in {0} |-> task_prompts[z][0]]]),
                   error |-> None]

\* forward(self, indices, task_ids): the table after the call, the returned
\* tensor and the exception raised, if any
forward(self, indices, task_ids) ==
    IF task_ids = NoTensor
    THEN [self |-> self, out |-> NoTensor, error |-> "AssertionError"]
    ELSE IF ~embedding_ok(self["embedding.weight"], indices)
            \/ ~index_select_ok(self["prefix_task_cols"], task_ids)
    THEN [self |-> self, out |-> NoTensor, error |-> "IndexError"]
    ELSE LET prompt_embeddings == embedding(self["embedding.weight"], indices)
             task_cols == index_select(self["prefix_task_cols"], task_ids)
             task_rows == index_select(self["prefix_task_rows"], task_ids)
             task_prompts == matmul(task_cols, task_rows)
             shape == IndexShape(indices) \o <<Size0(self["embedding.weight"][0])>>
         IN  \* prompt_embeddings *= task_prompts
             IF BroadcastShape(shape, Shape3(task_prompts)) # shape
             THEN [self |-> self, out |-> NoTensor, error |-> "RuntimeError"]
             ELSE [self |-> self, out |-> imul3(prompt_embeddings, task_prompts),
                   error |-> None]

\* the index tensors and task_ids the callers pass: the positions in order
\* (the caller's arange), out of order, out of range at either end, one
\* position short, and without a batch dimension
RowKinds == {"arange", "reversed", "over", "under"}
IndexRow(kind, L) ==
    [i \in 0..(L - 1) |->
        CASE kind = "arange" -> i
          [] kind = "reversed" -> L - 1 - i
          [] kind = "over" -> i + 1
          [] kind = "under" -> i - 1]
IndexBatch(kind, B, L) ==
    [b \in 0..(B - 1) |->
        IndexRow(IF kind = "reversed" /\ b % 2 = 1 THEN "arange" ELSE kind, L)]
IndexInputs ==
    {[rank |-> 1, t |-> IndexBatch("arange", 1, total_virtual_tokens)]}
    \cup
    {[rank |-> 2, t |-> IndexBatch(k, B, total_virtual_tokens)] :
        k \in {"arange", "reversed"}, B \in 1..MaxBatch}
    \cup
    {[rank |-> 2, t |-> IndexBatch(k, 1, total_virtual_tokens)] :
        k \in {"over", "under"}}
    \cup
    {[rank |-> 2, t |-> IndexBatch("arange", 1, total_virtual_tokens - 1)] :
        x \in {x \in {1} : total_virtual_tokens > 1}}
TaskIdInputs(n) ==
    {NoTensor}
    \cup {[b \in 0..(B - 1) |-> t] : B \in 1..MaxBatch, t \in {0, n - 1}}
    \cup {[b \in 0..(B - 1) |-> b % n] : B \in 1..MaxBatch}
    \cup {[b \in {0} |-> t] : t \in {-1, n}}

Forward ==
    /\ pc = "ready"
    /\ \E indices \in IndexInputs, task_ids \in TaskIdInputs(config.num_tasks) :
         \E res \in {forward(Params, indices, task_ids)} :
             /\ embedding_weight' = res.self["embedding.weight"]
             /\ prefix_task_cols' = res.self["prefix_task_cols"]
             /\ prefix_task_rows' = res.self["prefix_task_rows"]
             /\ last' = [called |-> TRUE, indices |-> indices, task_ids |-> task_ids,
                         out |-> res.out, error |-> res.error]
    /\ UNCHANGED <<config, pc, checkpoint, state_dict, prefix_task_cols_,
                   prefix_task_rows_, error, events>>

Next ==
    \/ SuperInit
    \/ AllocFactors
    \/ CheckPath
    \/ TorchLoad
    \/ TorchLoadFails
    \/ GetFactors
    \/ Reduce
    \/ LoadStrict
    \/ LoadShared
    \/ NoSourceInit

Spec == Init /\ [][Next]_vars

----------------------------------------------------------------------------
(* Lookups on a constructed table: the table a RANDOM construction returns, *)
(* then any sequence of forward calls.                                      *)

LookupConfigs ==
    { c \in MultitaskPromptTuningConfig :
        /\ c.prompt_tuning_init = "RANDOM"
        /\ c.prompt_tuning_init_state_dict_path = None
        /\ <<c.num_ranks, c.token_dim>> \in {<<1, 1>>, <<MaxRanks, MaxDim>>} }

LookupInit ==
    /\ config \in LookupConfigs
    /\ pc = "ready"
    /\ \E s \in FreshSeeds :
         /\ embedding_weight = BaseT(s, total_virtual_tokens, config.token_dim)
         /\ prefix_task_cols =
              ColsBank(s, config.num_tasks, total_virtual_tokens, config.num_ranks)
         /\ prefix_task_rows =
              RowsBank(s, config.num_tasks, config.num_ranks, config.token_dim)
    /\ checkpoint = NoTensor
    /\ state_dict = NoTensor
    /\ prefix_task_cols_ = NoTensor
    /\ prefix_task_rows_ = NoTensor
    /\ error = None
    /\ events = <<"alloc_base", "alloc_factors">>
    /\ last = NoCall

LookupNext == Forward

LookupSpec == LookupInit /\ [][LookupNext]_vars

----------------------------------------------------------------------------
(* Vocabulary of the properties *)

Range(seq) == {seq[k] : k \in 1..Len(seq)}

init_mode == config.prompt_tuning_init
source_task_index == config.prompt_tuning_init_task
HasCheckpoint == DOMAIN checkpoint # {}
HasFactorKeys == {"prefix_task_cols", "prefix_task_rows"} \subseteq DOMAIN checkpoint
num_source_tasks == Size0(checkpoint["prefix_task_cols"])

\* x is the bank's slice j, kept under a leading dimension of size 1
IsSliceOf(x, bank, j) == DOMAIN x = {0} /\ x[0] = bank[j]

\* x times the number of source tasks is the entrywise sum over the bank
IsMeanOf(x, bank) ==
    /\ DOMAIN x = {0}
    /\ \A i \in DOMAIN bank[0] : \A j \in DOMAIN bank[0][0] :
         RMul(x[0][i][j], RInt(Size0(bank))) =
            RSum([s \in DOMAIN bank |-> bank[s][i][j]], Size0(bank))

\* the modulation of task t at position i, dimension d
Modulation(t, i, d) ==
    RSum([r \in 0..(config.num_ranks - 1) |->
            RMul(prefix_task_cols[t][i][r], prefix_task_rows[t][r][d])],
         config.num_ranks)

\* the table of the scenario: base [[2],[3]], task_cols[0] [[1],[1/2]],
\* task_rows[0] [[2]]
ScenarioTable ==
    /\ embedding_weight = (0 :> (0 :> <<2, 1>>) @@ 1 :> (0 :> <<3, 1>>))
    /\ prefix_task_cols = (0 :> (0 :> (0 :> <<1, 1>>) @@ 1 :> (0 :> <<1, 2>>)))
    /\ prefix_task_rows = (0 :> (0 :> (0 :> <<2, 1>>)))

Scenario43 == (0 :> (0 :> <<4, 1>>) @@ 1 :> (0 :> <<3, 1>>))

\* a call with a batch of in-range position rows, one row entry per position
\* of the table, and one in-range task id per batch row
WellFormedCall ==
    /\ last.called
    /\ last.indices.rank = 2
    /\ Size0(last.indices.t[0]) = total_virtual_tokens
    /\ \A x \in IndexEntries(last.indices) : 0 <= x /\ x < total_virtual_tokens
    /\ last.task_ids # NoTensor
    /\ Size0(last.task_ids) = Size0(last.indices.t)
    /\ \A b \in DOMAIN last.task_ids :
         0 <= last.task_ids[b] /\ last.task_ids[b] < config.num_tasks

ElementwiseProduct ==
    WellFormedCall =>
        /\ last.error = None
        /\ DOMAIN last.out = DOMAIN last.indices.t
        /\ \A b \in DOMAIN last.indices.t :
             /\ DOMAIN last.out[b] = 0..(total_virtual_tokens - 1)
             /\ \A i \in 0..(total_virtual_tokens - 1) :
                  /\ DOMAIN last.out[b][i] = 0..(config.token_dim - 1)
                  /\ \A d \in 0..(config.token_dim - 1) :
                       last.out[b][i][d] =
                         RMul(embedding_weight[last.indices.t[b][i]][d],
                              Modulation(last.task_ids[b], i, d))

----------------------------------------------------------------------------
(* C1 *)

\* C1 as stated: every well-formed call returns the elementwise product of
\* the gathered base vectors and the low-rank modulation, and on the scenario
\* table compose(indices=[0,1], task_ids=[0,0]) returns [[4],[3]].
C1_AsStated ==
    /\ ElementwiseProduct
    /\ ( /\ last.called
         /\ ScenarioTable
         /\ last.indices = [rank |-> 1, t |-> (0 :> (0 :> 0 @@ 1 :> 1))]
         /\ last.task_ids = (0 :> 0 @@ 1 :> 0) )
       => (last.error = None /\ last.out = Scenario43)

\* C1, amended: every well-formed call returns the elementwise product of the
\* gathered base vectors and the low-rank modulation; on the scenario table
\* compose(indices=[[0,1],[0,1]], task_ids=[0,0]) returns [[4],[3]] for each
\* of the two batch rows, and the unbatched indices=[0,1] raise an error.
C1_Compose ==
    /\ ElementwiseProduct
    /\ ( /\ last.called
         /\ ScenarioTable
         /\ last.task_ids = (0 :> 0 @@ 1 :> 0) )
       => /\ last.indices = [rank |-> 2, t |-> (0 :> (0 :> 0 @@ 1 :> 1) @@ 1 :> (0 :> 0 @@ 1 :> 1))]
             => (last.error = None /\ last.out = (0 :> Scenario43 @@ 1 :> Scenario43))
          /\ last.indices = [rank |-> 1, t |-> (0 :> (0 :> 0 @@ 1 :> 1))]
             => (last.error = "RuntimeError" /\ last.out = NoTensor)

C1_Witness ==
    /\ last.called
    /\ ScenarioTable
    /\ last.indices = [rank |-> 2, t |-> (0 :> (0 :> 0 @@ 1 :> 1) @@ 1 :> (0 :> 0 @@ 1 :> 1))]
    /\ last.task_ids = (0 :> 0 @@ 1 :> 0)
    /\ last.out = (0 :> Scenario43 @@ 1 :> Scenario43)

----------------------------------------------------------------------------
(* C2 *)

\* C2: a call without task_ids fails with the assertion's input error and
\* returns no value, whatever the table and the indices.
C2_NoTaskIds ==
    (last.called /\ last.task_ids = NoTensor)
        => (last.error = "AssertionError" /\ last.out = NoTensor)

C2_Witness ==
    /\ last.called
    /\ last.task_ids = NoTensor
    /\ last.indices.rank = 2
    /\ last.error = "AssertionError"

----------------------------------------------------------------------------
(* C9 *)

\* C9: a forward call, successful or failing, leaves the three parameters as
\* they were, and a call that repeats the inputs of the call before it
\* returns the same result.
C9_Frame ==
    [][pc = "ready" =>
         /\ embedding_weight' = embedding_weight
         /\ prefix_task_cols' = prefix_task_cols
         /\ prefix_task_rows' = prefix_task_rows
         /\ (last.called /\ last'.indices = last.indices
                         /\ last'.task_ids = last.task_ids)
              => (last'.out = last.out /\ last'.error = last.error)]_vars

C9_Witness ==
    /\ last.called
    /\ last.error = None
    /\ last.indices.t[0] = (0 :> 1 @@ 1 :> 0)
    /\ config.num_tasks = 2

----------------------------------------------------------------------------
(* C3 *)

\* C3: under each of the three source modes a null path ends construction
\* with the configuration error, and no checkpoint read has happened.
C3_NullPath ==
    (init_mode \in SourceModes /\ config.prompt_tuning_init_state_dict_path = None)
        => /\ pc # "ready"
           /\ "read_checkpoint" \notin Range(events)
           /\ ~HasCheckpoint
           /\ pc \notin {"start", "alloc_factors", "check_path"}
                => (pc = "failed" /\ error = "ValueError")

C3_Witness ==
    /\ init_mode = EXACT_SOURCE_TASK
    /\ config.prompt_tuning_init_state_dict_path = None
    /\ pc = "failed"
    /\ error = "ValueError"

----------------------------------------------------------------------------
(* C10 *)

\* C10 as stated: when the configuration error is raised, no factor
\* allocation precedes it.
C10_AsStated ==
    error = "ValueError" => "alloc_factors" \notin Range(events)

\* C10, amended: the configuration error is raised after the factor tensors
\* have been allocated and before any checkpoint read: the construction
\* events are the base allocation, the factor allocation, the error.
C10_ErrorAfterAllocation ==
    error = "ValueError" =>
        /\ events = <<"alloc_base", "alloc_factors", "raise_ValueError">>
        /\ prefix_task_cols # NoTensor
        /\ prefix_task_rows # NoTensor

C10_Witness ==
    /\ init_mode = ONLY_SOURCE_SHARED
    /\ error = "ValueError"
    /\ Size0(prefix_task_cols) = config.num_tasks

----------------------------------------------------------------------------
(* C4 *)

\* C4: a construction that succeeds under EXACT_SOURCE_TASK with
\* 0 <= k < num_source_tasks leaves factors of leading dimension 1 equal to
\* the checkpoint's k-th slices, and base vectors equal to the checkpoint's
\* prompt_embeddings.
C4_ExactSlice ==
    ( /\ pc = "ready"
      /\ init_mode = EXACT_SOURCE_TASK
      /\ 0 <= source_task_index
      /\ source_task_index < num_source_tasks )
    => /\ IsSliceOf(prefix_task_cols, checkpoint["prefix_task_cols"], source_task_index)
       /\ IsSliceOf(prefix_task_rows, checkpoint["prefix_task_rows"], source_task_index)
       /\ embedding_weight = checkpoint["prompt_embeddings"]

C4_Witness ==
    /\ pc = "ready"
    /\ init_mode = EXACT_SOURCE_TASK
    /\ source_task_index = 1
    /\ num_source_tasks = 2
    /\ config.num_ranks = 2

----------------------------------------------------------------------------
(* C5 *)

\* C5: under ONLY_SOURCE_SHARED the factors never change after their
\* allocation, a returned table has the checkpoint's prompt_embeddings as
\* base vectors, and construction succeeds for every checkpoint whose
\* prompt_embeddings have the table's shape, with or without factor keys.
C5_OnlyShared ==
    /\ [](init_mode = ONLY_SOURCE_SHARED =>
            /\ pc = "ready" => embedding_weight = checkpoint["prompt_embeddings"]
            /\ ( /\ HasCheckpoint
                 /\ "prompt_embeddings" \in DOMAIN checkpoint
                 /\ Shape2(checkpoint["prompt_embeddings"]) =
                        <<total_virtual_tokens, config.token_dim>>
                 /\ pc # "dispatch" )
               => pc = "ready")
    /\ [][(init_mode = ONLY_SOURCE_SHARED /\ pc \notin {"start", "alloc_factors"})
            => /\ prefix_task_cols' = prefix_task_cols
               /\ prefix_task_rows' = prefix_task_rows]_vars

C5_Witness ==
    /\ pc = "ready"
    /\ init_mode = ONLY_SOURCE_SHARED
    /\ DOMAIN checkpoint = {"prompt_embeddings"}
    /\ embedding_weight = checkpoint["prompt_embeddings"]
    /\ config.num_tasks = 2

----------------------------------------------------------------------------
(* C6 *)

\* C6: a construction that succeeds under AVERAGE_SOURCE_TASKS leaves factors
\* of leading dimension 1 equal to the mean over the checkpoint's source
\* tasks, whatever their number and whatever source_task_index.
C6_Average ==
    (pc = "ready" /\ init_mode = AVERAGE_SOURCE_TASKS)
    => /\ IsMeanOf(prefix_task_cols, checkpoint["prefix_task_cols"])
       /\ IsMeanOf(prefix_task_rows, checkpoint["prefix_task_rows"])

C6_Witness ==
    /\ pc = "ready"
    /\ init_mode = AVERAGE_SOURCE_TASKS
    /\ num_source_tasks = MaxSourceTasks
    /\ source_task_index = -1
    /\ config.num_ranks = 2

----------------------------------------------------------------------------
(* C7 *)

SelectionDone == pc \in {"load_strict", "ready", "failed"}

\* C7 as stated: under EXACT_SOURCE_TASK every source_task_index outside
\* [0, num_source_tasks), the negative ones included, ends construction with
\* an index error at the selection.
C7_AsStated ==
    ( /\ init_mode = EXACT_SOURCE_TASK
      /\ HasFactorKeys
      /\ SelectionDone
      /\ ~(0 <= source_task_index /\ source_task_index < num_source_tasks) )
    => (pc = "failed" /\ error = "IndexError")

\* C7, amended: the selection raises an index error exactly for the
\* source_task_index outside [-num_source_tasks, num_source_tasks); a
\* negative index k inside that range selects source task
\* num_source_tasks + k, and a table returned then holds that task's factors.
C7_IndexRange ==
    ( /\ init_mode = EXACT_SOURCE_TASK
      /\ HasFactorKeys
      /\ SelectionDone )
    => /\ (pc = "failed" /\ error = "IndexError")
            <=> ~( /\ -num_source_tasks <= source_task_index
                   /\ source_task_index < num_source_tasks )
       /\ (pc = "ready" /\ source_task_index < 0)
            => /\ IsSliceOf(prefix_task_cols, checkpoint["prefix_task_cols"],
                            num_source_tasks + source_task_index)
               /\ IsSliceOf(prefix_task_rows, checkpoint["prefix_task_rows"],
                            num_source_tasks + source_task_index)

C7_Witness ==
    /\ init_mode = EXACT_SOURCE_TASK
    /\ pc = "ready"
    /\ source_task_index = -1
    /\ num_source_tasks = 2

----------------------------------------------------------------------------
(* C8 *)

CheckpointFits ==
    /\ Shape2(checkpoint["prompt_embeddings"]) =
          <<total_virtual_tokens, config.token_dim>>
    /\ Size0(checkpoint["prefix_task_cols"][0]) = total_virtual_tokens
    /\ Size0(checkpoint["prefix_task_cols"][0][0]) = config.num_ranks
    /\ Size0(checkpoint["prefix_task_rows"][0]) = config.num_ranks
    /\ Size0(checkpoint["prefix_task_rows"][0][0]) = config.token_dim

\* C8: under the two factor modes, a strict load reached with num_tasks other
\* than 1 or with checkpoint shapes other than the table's ends construction
\* with the load's error; a returned table has num_tasks 1, the checkpoint's
\* prompt_embeddings and the factors derived from the checkpoint.
C8_StrictLoad ==
    init_mode \in FactorModes =>
        /\ ( /\ "load_state_dict" \in Range(events)
             /\ (config.num_tasks # 1 \/ ~CheckpointFits) )
           => (pc = "failed" /\ error = "RuntimeError")
        /\ pc = "ready" =>
             /\ config.num_tasks = 1
             /\ CheckpointFits
             /\ Shape2(embedding_weight) = <<total_virtual_tokens, config.token_dim>>
             /\ Shape3(prefix_task_cols) = <<1, total_virtual_tokens, config.num_ranks>>
             /\ Shape3(prefix_task_rows) = <<1, config.num_ranks, config.token_dim>>
             /\ embedding_weight = checkpoint["prompt_embeddings"]
             /\ init_mode = AVERAGE_SOURCE_TASKS =>
                  /\ IsMeanOf(prefix_task_cols, checkpoint["prefix_task_cols"])
                  /\ IsMeanOf(prefix_task_rows, checkpoint["prefix_task_rows"])
             /\ init_mode = EXACT_SOURCE_TASK =>
                  \E j \in 0..(num_source_tasks - 1) :
                     /\ j = source_task_index % num_source_tasks
                     /\ IsSliceOf(prefix_task_cols, checkpoint["prefix_task_cols"], j)
                     /\ IsSliceOf(prefix_task_rows, checkpoint["prefix_task_rows"], j)

C8_Witness ==
    /\ init_mode = EXACT_SOURCE_TASK
    /\ config.num_tasks = 2
    /\ "load_state_dict" \in Range(events)
    /\ CheckpointFits
    /\ pc = "failed"
    /\ error = "RuntimeError"

====
